---- MODULE Spec2Model ----
(***************************************************************************)
(* The Spartan notebook (src/spartan.ipynb) as a state machine.            *)
(*                                                                         *)
(* The notebook's code cells run in order in one kernel.  The state is the *)
(* kernel's namespace (AL, BL, CL, WL, A, B, C, w, aw, ..., expected, i,   *)
(* d, e) together with the position pc of the next step and the outcome of *)
(* the two assertions.  An assertion that fails ends its cell; the names   *)
(* the cell assigned before it stay in the kernel, so the next cell can    *)
(* still be run.                                                           *)
(*                                                                         *)
(* A polynomial of the ring of ng generators is carried by its values on   *)
(* the boolean hypercube: a function from 0 .. 2^ng - 1, point pt giving   *)
(* generator g the value Bit(pt, g).  Every evaluation the notebook makes  *)
(* is at a boolean point, and a substitution of boolean values for some    *)
(* generators is again such a table.                                       *)
(***************************************************************************)
EXTENDS Integers, Sequences, FiniteSets, TLC

VARIABLES pc, AL, BL, CL, WL, A, B, C, w, aw, bw, cw, directOk,
          ng, Axy, Bxy, Cxy, xgens_count, xgens, ygens, Wy, skip_vars,
          Ax, Bx, Cx, expected, i, d, e, checked, polyErr

vars == <<pc, AL, BL, CL, WL, A, B, C, w, aw, bw, cw, directOk,
          ng, Axy, Bxy, Cxy, xgens_count, xgens, ygens, Wy, skip_vars,
          Ax, Bx, Cx, expected, i, d, e, checked, polyErr>>

(***************************************************************************)
(* Bounds of the model.                                                    *)
(***************************************************************************)
\* largest number of rows / columns of the generated instances
MaxRows == 2
MaxCols == 2
\* a replaced witness component is drawn from 0..MaxVal and P-MaxVal..P-1
MaxVal == 3

(***************************************************************************)
(* The field GF(P), elements 0 .. P-1.  Sums and products are reduced      *)
(* without ever forming a number of 2^31 or more.                          *)
(***************************************************************************)
P == 15 * (2 ^ 27) + 1

FAdd(a, b) == IF a >= P - b THEN a - (P - b) ELSE a + b

FSub(a, b) == IF a >= b THEN a - b ELSE (a - b) + P

\* a*b by doubling, for factors whose product does not fit 32 bits
RECURSIVE FMulWide(_, _)
FMulWide(a, b) ==
    IF b = 0 THEN 0
    ELSE LET h  == FMulWide(a, b \div 2)
             h2 == FAdd(h, h)
         IN  IF b % 2 = 1 THEN FAdd(h2, a) ELSE h2

\* the representative of a of least absolute value
Centred(a) == IF a > P \div 2 THEN a - P ELSE a

\* a*b: the product of the centred representatives when it fits 32 bits
FMul(a, b) ==
    LET ca == Centred(a)
        cb == Centred(b)
    IN  IF ca \in -46340 .. 46340 /\ cb \in -46340 .. 46340
        THEN (ca * cb) % P
        ELSE FMulWide(a, b)

\* Sum in GF(P) of f[0], ..., f[k-1]
RECURSIVE FSum(_, _)
FSum(f, k) == IF k = 0 THEN 0 ELSE FAdd(FSum(f, k - 1), f[k - 1])

\* Integer(k).bit_length()
RECURSIVE bit_length(_)
bit_length(k) == IF k = 0 THEN 0 ELSE 1 + bit_length(k \div 2)

(***************************************************************************)
(* Matrices and vectors over GF(P), indexed from 0 as in the source.       *)
(***************************************************************************)
nrows(M) == Cardinality(DOMAIN M)
ncols(M) == Cardinality(DOMAIN M[0])

\* Matrix(Fp, L): the list of rows L with every entry reduced modulo P
Matrix(L) ==
    [r \in 0 .. Len(L) - 1 |-> [c \in 0 .. Len(L[1]) - 1 |-> L[r + 1][c + 1] % P]]

\* vector(Fp, L)
vector(L) == [c \in 0 .. Len(L) - 1 |-> L[c + 1] % P]

\* a product that leaves out the last column
MatVec_dropLast(M, v) ==
    [r \in DOMAIN M |->
        FSum([c \in DOMAIN v |-> FMul(M[r][c], v[c])], Cardinality(DOMAIN v) - 1)]

\* M*v
MatVec(M, v) ==
    [r \in DOMAIN M |->
        FSum([c \in DOMAIN v |-> FMul(M[r][c], v[c])], Cardinality(DOMAIN v))]

\* hadamard_product(u, v): the list of the elementwise products
hadamard_product(u, v) == [r \in 1 .. Cardinality(DOMAIN u) |-> FMul(u[r - 1], v[r - 1])]

\* list(v)
list(v) == [r \in 1 .. Cardinality(DOMAIN v) |-> v[r - 1]]

(***************************************************************************)
(* Polynomial rings, boolean points and the helpers of utils.multivariates.*)
(* Generator g of a ring of ng generators is the number g in 0 .. ng-1;    *)
(* gens(ng) is the tuple parent().gens().                                  *)
(***************************************************************************)
gens(n) == [k \in 1 .. n |-> k - 1]

Points(n) == 0 .. (2 ^ n) - 1

\* the value point pt gives generator g
Bit(pt, g) == (pt \div (2 ^ g)) % 2

\* seq[:k] and seq[k:]
Take(seq, k) == SubSeq(seq, 1, k)
Drop(seq, k) == SubSeq(seq, k + 1, Len(seq))

Range(seq) == {seq[k] : k \in 1 .. Len(seq)}

PosOf(seq, g) == CHOOSE k \in 1 .. Len(seq) : seq[k] = g

\* bit_decomp_dict(idx, vs): the dictionary giving the k-th variable of vs
\* the k-th bit of idx, most significant bit first
bit_decomp_dict(idx, vs) ==
    [g \in Range(vs) |-> (idx \div (2 ^ (Len(vs) - PosOf(vs, g)))) % 2]

\* the point pt with the generators of dictionary dict set to dict's values
RECURSIVE Override(_, _, _)
Override(pt, dict, n) ==
    IF n = 0 THEN 0
    ELSE Override(pt, dict, n - 1)
         + (2 ^ (n - 1)) * (IF (n - 1) \in DOMAIN dict THEN dict[n - 1] ELSE Bit(pt, n - 1))

\* poly.subs(dict)
subs(poly, dict, n) == [pt \in Points(n) |-> poly[Override(pt, dict, n)]]

\* the selector of one bit: x if the bit is 1, else 1 - x
sel(bit, x) == IF bit = 1 THEN x ELSE FSub(1, x)

\* the product of the selectors of the bits of idx over the variables vs,
\* at point pt
RECURSIVE chiUpTo(_, _, _, _)
chiUpTo(dict, vs, pt, k) ==
    IF k = 0 THEN 1
    ELSE FMul(chiUpTo(dict, vs, pt, k - 1), sel(dict[vs[k]], Bit(pt, vs[k])))

chi(idx, vs, pt) == chiUpTo(bit_decomp_dict(idx, vs), vs, pt, Len(vs))

\* the ring matrix_multilinearize(M) creates: one generator group sized to
\* the bit length of the row count, one to that of the column count
ring_of(M) == bit_length(nrows(M)) + bit_length(ncols(M))

\* matrix_multilinearize(M, ring): the sum over the nonzero entries (r, c) of
\* M[r][c] times the selectors of r on the row group and of c on the column
\* group
matrix_multilinearize(M, n) ==
    LET xv == Take(gens(n), bit_length(nrows(M)))
        yv == Drop(gens(n), bit_length(nrows(M)))
        nc == ncols(M)
    IN  [pt \in Points(n) |->
            FSum([k \in 0 .. nrows(M) * nc - 1 |->
                    LET r == k \div nc
                        c == k % nc
                    IN  IF M[r][c] = 0 THEN 0
                        ELSE FMul(M[r][c], FMul(chi(r, xv, pt), chi(c, yv, pt)))],
                 nrows(M) * nc)]

\* vec_multilinearize(v, vs), a polynomial of the ring of n generators
vec_multilinearize(v, vs, n) ==
    [pt \in Points(n) |->
        FSum([c \in DOMAIN v |->
                IF v[c] = 0 THEN 0 ELSE FMul(v[c], chi(c, vs, pt))],
             Cardinality(DOMAIN v))]

\* hypercube_sum(poly, skip): the sum of poly over every boolean assignment,
\* in numeric order, of the generators that are not in skip
hypercube_sum(poly, skip, n) ==
    LET summed == SelectSeq(gens(n), LAMBDA g : g \notin Range(skip))
    IN  [pt \in Points(n) |->
            FSum([a \in 0 .. (2 ^ Len(summed)) - 1 |->
                    poly[Override(pt, bit_decomp_dict(a, summed), n)]],
                 2 ^ Len(summed))]

\* p*q and p - q
PolyMul(p, q) == [pt \in DOMAIN p |-> FMul(p[pt], q[pt])]
PolySub(p, q) == [pt \in DOMAIN p |-> FSub(p[pt], q[pt])]

\* poly == 0
IsZero(poly) == \A pt \in DOMAIN poly : poly[pt] = 0

(***************************************************************************)
(* compute_y_sum of the notebook.                                          *)
(***************************************************************************)
\* a skip length one too small: the last x-generator is summed out as well
skip_len_short(n, y_dim) == n - bit_length(y_dim) - 1

skip_len(n, y_dim) == n - bit_length(y_dim)

compute_y_sum_skip_vars(n, y_dim) == Take(gens(n), skip_len(n, y_dim))

compute_y_sum(poly, n, y_dim) ==
    hypercube_sum(poly, compute_y_sum_skip_vars(n, y_dim), n)

\* an x-group one generator too small
XgensCount_short(M) == bit_length(nrows(M)) - 1

\* xgens_count = Integer(A.nrows()).bit_length()
XgensCount(M) == bit_length(nrows(M))

(***************************************************************************)
(* The instances.                                                          *)
(***************************************************************************)
SampleAL == << <<0, 1, 0, 0, 0, 0>>,
               <<0, 0, 0, 1, 0, 0>>,
               <<0, 1, 0, 0, 1, 0>>,
               <<5, 0, 0, 0, 0, 1>> >>

SampleBL == << <<0, 1, 0, 0, 0, 0>>,
               <<0, 1, 0, 0, 0, 0>>,
               <<1, 0, 0, 0, 0, 0>>,
               <<1, 0, 0, 0, 0, 0>> >>

SampleCL == << <<0, 0, 0, 1, 0, 0>>,
               <<0, 0, 0, 0, 1, 0>>,
               <<0, 0, 0, 0, 0, 1>>,
               <<0, 0, 1, 0, 0, 0>> >>

SampleWL == <<1, 3, 35, 9, 27, 30>>

\* the values a replaced component of the sample witness takes
MutVals == (0 .. MaxVal) \cup {P - v : v \in 1 .. MaxVal}

\* the sample witness and every witness differing from it in one component
SampleWitnesses ==
    {SampleWL} \cup {[SampleWL EXCEPT ![k] = v] : k \in 1 .. Len(SampleWL), v \in MutVals}

ZeroL(n, m) == [r \in 1 .. n |-> [c \in 1 .. m |-> 0]]

\* the n x m lists of rows with at most one nonzero entry, drawn from vals
SparseL(n, m, vals) ==
    {ZeroL(n, m)} \cup
    {[ZeroL(n, m) EXCEPT ![r][c] = v] : r \in 1 .. n, c \in 1 .. m, v \in vals}

\* the lists of m ones, and those with one component 2 instead
SmallWitnesses(m) ==
    {[c \in 1 .. m |-> IF c = k THEN 2 ELSE 1] : k \in 0 .. m}

Unset == <<>>

Init ==
    /\ pc = "direct"
    /\ \/ /\ AL = SampleAL
          /\ BL = SampleBL
          /\ CL = SampleCL
          /\ WL \in SampleWitnesses
       \/ \E n \in 1 .. MaxRows, m \in 1 .. MaxCols :
            /\ AL \in SparseL(n, m, {1, -1})
            /\ BL \in SparseL(n, m, {1})
            /\ CL \in SparseL(n, m, {1})
            /\ WL \in SmallWitnesses(m)
    /\ A = Unset /\ B = Unset /\ C = Unset /\ w = Unset
    /\ aw = Unset /\ bw = Unset /\ cw = Unset
    /\ directOk = "unset"
    /\ ng = 0
    /\ Axy = Unset /\ Bxy = Unset /\ Cxy = Unset /\ Wy = Unset
    /\ xgens_count = 0 /\ xgens = <<>> /\ ygens = <<>> /\ skip_vars = <<>>
    /\ Ax = Unset /\ Bx = Unset /\ Cx = Unset /\ expected = Unset
    /\ i = 0 /\ d = Unset /\ e = Unset
    /\ checked = {}
    /\ polyErr = -1

(***************************************************************************)
(* The cells.                                                              *)
(***************************************************************************)
\* the first validation cell: the direct check
Cell_Direct ==
    /\ pc = "direct"
    /\ A' = Matrix(AL)
    /\ B' = Matrix(BL)
    /\ C' = Matrix(CL)
    /\ w' = vector(WL)
    /\ aw' = MatVec(A', w')
    /\ bw' = MatVec(B', w')
    /\ cw' = MatVec(C', w')
    /\ directOk' = IF list(cw') = hadamard_product(aw', bw')
                   THEN "pass" ELSE "AssertionError"
    /\ pc' = "poly"
    /\ UNCHANGED <<AL, BL, CL, WL, ng, Axy, Bxy, Cxy, xgens_count, xgens, ygens,
                   Wy, skip_vars, Ax, Bx, Cx, expected, i, d, e, checked, polyErr>>

\* the second validation cell up to its loop: the extensions, the generator
\* groups, the sums over the y-group and the expression Ax*Bx - Cx.  The
\* notebook passes the column count of its matrices, 6, as y_dim.  The
\* assert of compute_y_sum ends the cell when skip_len is negative.
Cell_PolyBuild ==
    /\ pc = "poly"
    /\ ng' = ring_of(A)
    /\ Axy' = matrix_multilinearize(A, ng')
    /\ Bxy' = matrix_multilinearize(B, ng')
    /\ Cxy' = matrix_multilinearize(C, ng')
    /\ xgens_count' = XgensCount(A)
    /\ xgens' = Take(gens(ng'), xgens_count')
    /\ ygens' = Drop(gens(ng'), xgens_count')
    /\ Wy' = vec_multilinearize(w, ygens', ng')
    /\ IF skip_len(ng', ncols(A)) >= 0
       THEN /\ skip_vars' = compute_y_sum_skip_vars(ng', ncols(A))
            /\ Ax' = compute_y_sum(PolyMul(Axy', Wy'), ng', ncols(A))
            /\ Bx' = compute_y_sum(PolyMul(Bxy', Wy'), ng', ncols(A))
            /\ Cx' = compute_y_sum(PolyMul(Cxy', Wy'), ng', ncols(A))
            /\ expected' = PolySub(PolyMul(Ax', Bx'), Cx')
            /\ pc' = "loop"
       ELSE /\ pc' = "aborted"
            /\ UNCHANGED <<skip_vars, Ax, Bx, Cx, expected>>
    /\ i' = 0
    /\ UNCHANGED <<AL, BL, CL, WL, A, B, C, w, aw, bw, cw, directOk,
                   d, e, checked, polyErr>>

\* a loop that goes on after a row whose value is not zero
Cell_PolyLoop_collecting ==
    /\ pc = "loop"
    /\ i < nrows(A)
    /\ d' = bit_decomp_dict(i, xgens)
    /\ e' = subs(expected, d', ng)
    /\ checked' = checked \cup {i}
    /\ polyErr' = IF IsZero(e') THEN polyErr ELSE i
    /\ i' = i + 1
    /\ pc' = IF i + 1 < nrows(A) THEN "loop" ELSE "done"
    /\ UNCHANGED <<AL, BL, CL, WL, A, B, C, w, aw, bw, cw, directOk,
                   ng, Axy, Bxy, Cxy, xgens_count, xgens, ygens, Wy, skip_vars,
                   Ax, Bx, Cx, expected>>

\* a loop that decomposes the row after the one it is at
Cell_PolyLoop_nextRow ==
    /\ pc = "loop"
    /\ i < nrows(A)
    /\ d' = bit_decomp_dict(i + 1, xgens)
    /\ e' = subs(expected, d', ng)
    /\ checked' = checked \cup {i}
    /\ IF IsZero(e')
       THEN /\ i' = i + 1
            /\ pc' = IF i + 1 < nrows(A) THEN "loop" ELSE "done"
            /\ UNCHANGED polyErr
       ELSE /\ polyErr' = i
            /\ pc' = "done"
            /\ UNCHANGED i
    /\ UNCHANGED <<AL, BL, CL, WL, A, B, C, w, aw, bw, cw, directOk,
                   ng, Axy, Bxy, Cxy, xgens_count, xgens, ygens, Wy, skip_vars,
                   Ax, Bx, Cx, expected>>

\* one iteration of the loop over range(A.nrows()); i is the row the loop
\* takes next.  A failing assert ends the cell.
Cell_PolyLoop ==
    /\ pc = "loop"
    /\ i < nrows(A)
    /\ d' = bit_decomp_dict(i, xgens)
    /\ e' = subs(expected, d', ng)
    /\ checked' = checked \cup {i}
    /\ IF IsZero(e')
       THEN /\ i' = i + 1
            /\ pc' = IF i + 1 < nrows(A) THEN "loop" ELSE "done"
            /\ UNCHANGED polyErr
       ELSE /\ polyErr' = i
            /\ pc' = "done"
            /\ UNCHANGED i
    /\ UNCHANGED <<AL, BL, CL, WL, A, B, C, w, aw, bw, cw, directOk,
                   ng, Axy, Bxy, Cxy, xgens_count, xgens, ygens, Wy, skip_vars,
                   Ax, Bx, Cx, expected>>

Next == Cell_Direct \/ Cell_PolyBuild \/ Cell_PolyLoop

Spec == Init /\ [][Next]_vars

(***************************************************************************)
(* Notions the properties are stated with.                                 *)
(***************************************************************************)
\* the instance is the notebook's sample instance
IsSample == AL = SampleAL /\ BL = SampleBL /\ CL = SampleCL /\ WL = SampleWL

\* the sample instance with one component of the witness replaced
IsMutatedSample ==
    /\ AL = SampleAL /\ BL = SampleBL /\ CL = SampleCL
    /\ WL \in SampleWitnesses \ {SampleWL}

\* the second cell has built its polynomials
Built == pc \in {"loop", "done"}

\* the rows on which (A*w)[r] * (B*w)[r] differs from (C*w)[r]
DirectFailRows == {r \in DOMAIN aw : FMul(aw[r], bw[r]) # cw[r]}

\* the rows at whose bit decomposition Ax*Bx - Cx is not zero
PolyFailRows ==
    {r \in 0 .. nrows(A) - 1 : ~IsZero(subs(expected, bit_decomp_dict(r, xgens), ng))}

\* the rows the loop of the second cell has identified as violating
Reported == IF polyErr >= 0 THEN {polyErr} ELSE {}

\* the index whose bits, most significant first, dictionary dict gives vs
RECURSIVE RecomposeUpTo(_, _, _)
RecomposeUpTo(dict, vs, k) ==
    IF k = 0 THEN 0 ELSE 2 * RecomposeUpTo(dict, vs, k - 1) + dict[vs[k]]

Recompose(dict, vs) == RecomposeUpTo(dict, vs, Len(vs))

\* the row and column index a point of the hypercube stands for
RowIndex(pt) == Recompose([g \in Range(xgens) |-> Bit(pt, g)], xgens)
ColIndex(pt) == Recompose([g \in Range(ygens) |-> Bit(pt, g)], ygens)

\* polynomial poly is the constant v
IsConst(poly, v) == \A pt \in DOMAIN poly : poly[pt] = v

\* poly at the bits of r on the x-group
AtRow(poly, r) == subs(poly, bit_decomp_dict(r, xgens), ng)

\* poly at the bits of c on the y-group
AtCol(poly, c) == subs(poly, bit_decomp_dict(c, ygens), ng)

\* the least k with 2^k >= n
RECURSIVE CeilLog2From(_, _)
CeilLog2From(n, k) == IF 2 ^ k >= n THEN k ELSE CeilLog2From(n, k + 1)

CeilLog2(n) == CeilLog2From(n, 0)

\* the row the loop evaluated last
LastRow == IF polyErr >= 0 THEN polyErr ELSE i - 1

C8_BitRoundTrip ==
    Built =>
        /\ \A vs \in {xgens, ygens} :
              LET idxs == 0 .. (2 ^ Len(vs)) - 1
              IN  /\ \A idx \in idxs :
                        /\ \A g \in Range(vs) : bit_decomp_dict(idx, vs)[g] \in {0, 1}
                        /\ Recompose(bit_decomp_dict(idx, vs), vs) = idx
                  /\ Cardinality({bit_decomp_dict(idx, vs) : idx \in idxs}) = 2 ^ Len(vs)
        /\ checked # {} =>
              /\ DOMAIN d = Range(xgens)
              /\ \A g \in DOMAIN d : d[g] \in {0, 1}
              /\ Recompose(d, xgens) = LastRow

C8_Witness ==
    /\ IsSample
    /\ pc = "done"
    /\ LastRow = 3
    /\ d = (0 :> 0 @@ 1 :> 1 @@ 2 :> 1)

C10_GroupSizesAreCeilLog2 ==
    (IsSample /\ Built) =>
        /\ xgens_count = CeilLog2(nrows(A))
        /\ xgens_count = 2
        /\ ng - Len(skip_vars) = CeilLog2(ncols(A))
        /\ ng - Len(skip_vars) = 3

====
